---- MODULE Spec2Model ----
(***************************************************************************)
(* File reference and content-addressed download cache of @inferencesh/app *)
(* (src/src/storage.ts holds storage.ts followed by file.ts;               *)
(* src/src/download.ts the download utility).                              *)
(*                                                                         *)
(* Strings are sequences of one-character strings, so that startsWith,     *)
(* lastIndexOf, slice, basename, resolve and the URL split are computed    *)
(* as the code computes them; a MIME type and the hash directory name are  *)
(* one opaque element each.  An optional field is <<>> when undefined and  *)
(* <<v>> when it holds v.                                                  *)
(***************************************************************************)
EXTENDS Integers, Sequences, FiniteSets, TLC

(***************************************************************************)
(* Bounds of the model.                                                    *)
(***************************************************************************)
\* number of File.from / fromPath calls the callers issue (each may overlap the others)
NumProcs == 2
\* number of chunks in which a response body reaches the write stream
BodyLen == 2
\* number of chunks of the content a caller writes into a file of its own
NewLen == 2
\* largest number supplied in an options record of a metadata factory
MaxNumber == 1

Procs == 1..NumProcs

(***************************************************************************)
(* String helpers (JavaScript String / node:path semantics).               *)
(***************************************************************************)
Max(S) == CHOOSE m \in S : \A n \in S : n <= m

\* Op applied to the value of v (call by value, as in JavaScript)
Strict(Op(_), v) == CHOOSE r \in {Op(x) : x \in {v}} : TRUE

Undef == <<>>
Some(v) == <<v>>
IsSet(o) == o # <<>>
Val(o) == o[1]

\* JavaScript truthiness of an optional string: undefined and "" are falsy.
truthy(o) == IsSet(o) /\ Val(o) # <<>>

startsWith(s, pre) == Len(s) >= Len(pre) /\ SubSeq(s, 1, Len(pre)) = pre

\* String.prototype.lastIndexOf: 0-based index of the last occurrence, -1 when none.
lastIndexOf(s, c) ==
  LET I == {i \in 1..Len(s) : s[i] = c}
  IN  IF I = {} THEN -1 ELSE Max(I) - 1

\* String.prototype.slice(b): a negative b counts from the end.
slice(s, b) ==
  LET st == IF b < 0 THEN (IF Len(s) + b < 0 THEN 0 ELSE Len(s) + b)
                     ELSE (IF b > Len(s) THEN Len(s) ELSE b)
  IN  SubSeq(s, st + 1, Len(s))

Upper == <<"A","B","C","D","E","F","G","H","I","J","K","L","M",
           "N","O","P","Q","R","S","T","U","V","W","X","Y","Z">>
Lower == <<"a","b","c","d","e","f","g","h","i","j","k","l","m",
           "n","o","p","q","r","s","t","u","v","w","x","y","z">>

toLowerCase(s) ==
  [i \in 1..Len(s) |->
     IF \E k \in 1..26 : Upper[k] = s[i]
       THEN Lower[CHOOSE k \in 1..26 : Upper[k] = s[i]]
       ELSE s[i]]

\* The segments of s between occurrences of the separator (String.prototype.split).
Split(s, sep) ==
  LET I == {i \in 1..Len(s) : s[i] = sep}
      n == Cardinality(I)
      \* position of the k-th separator; 0 and Len(s) + 1 bound the string
      cut(k) == IF k = 0 THEN 0
                ELSE IF k = n + 1 THEN Len(s) + 1
                ELSE CHOOSE i \in I : Cardinality({j \in I : j <= i}) = k
  IN  [k \in 1..(n + 1) |-> SubSeq(s, cut(k - 1) + 1, cut(k) - 1)]

\* Segments joined by "/" (Array.prototype.join).
RECURSIVE JoinSegs(_)
JoinSegs(segs) ==
  IF segs = <<>> THEN <<>>
  ELSE IF Len(segs) = 1 THEN segs[1]
  ELSE segs[1] \o <<"/">> \o JoinSegs(Tail(segs))

\* node:path normalizeString: drops "" and "." segments, resolves ".." against the
\* preceding segment; above the root ".." is kept only when allowAboveRoot.
RECURSIVE NormSegs(_, _, _)
NormSegs(segs, acc, allowAboveRoot) ==
  IF segs = <<>> THEN acc
  ELSE LET s == Head(segs)
           rest == Tail(segs)
       IN  IF s = <<>> \/ s = <<".">> THEN NormSegs(rest, acc, allowAboveRoot)
           ELSE IF s = <<".", ".">>
             THEN IF acc # <<>> /\ acc[Len(acc)] # <<".", ".">>
                    THEN NormSegs(rest, SubSeq(acc, 1, Len(acc) - 1), allowAboveRoot)
                    ELSE IF allowAboveRoot
                           THEN NormSegs(rest, Append(acc, s), allowAboveRoot)
                           ELSE NormSegs(rest, acc, allowAboveRoot)
           ELSE NormSegs(rest, Append(acc, s), allowAboveRoot)

isAbsolute(p) == Len(p) > 0 /\ p[1] = "/"

\* node:path posix.normalize.
normalize(p) ==
  IF p = <<>> THEN <<".">>
  ELSE LET abs == isAbsolute(p)
           trailing == p[Len(p)] = "/"
           body == Strict(LAMBDA segs :
                            Strict(JoinSegs, NormSegs(segs, <<>>, ~abs)),
                          Split(p, "/"))
       IN  IF body = <<>>
             THEN (IF abs THEN <<"/">> ELSE IF trailing THEN <<".", "/">> ELSE <<".">>)
             ELSE (IF abs THEN <<"/">> ELSE <<>>) \o body
                    \o (IF trailing THEN <<"/">> ELSE <<>>)

\* node:path posix.join of two arguments: empty arguments are skipped.
join(a, b) ==
  IF a = <<>> /\ b = <<>> THEN <<".">>
  ELSE IF a = <<>> THEN normalize(b)
  ELSE IF b = <<>> THEN normalize(a)
  ELSE normalize(a \o <<"/">> \o b)

\* node:path posix.basename without suffix: the last non-empty segment.
basename(p) ==
  LET segs == SelectSeq(Split(p, "/"), LAMBDA s : s # <<>>)
  IN  IF segs = <<>> THEN <<>> ELSE segs[Len(segs)]

\* The working directory of the process (process.cwd()).
Cwd == <<"/", "w">>

\* node:path posix.resolve of one argument: absolute, normalized, no trailing slash.
resolve(p) ==
  LET full == IF isAbsolute(p) THEN p ELSE Cwd \o <<"/">> \o p
  IN  <<"/">> \o Strict(LAMBDA segs :
                            Strict(JoinSegs, NormSegs(segs, <<>>, FALSE)),
                          Split(full, "/"))


(***************************************************************************)
(* Literals, spelled character by character.                               *)
(***************************************************************************)
HTTP == <<"h", "t", "t", "p", ":", "/", "/">>
HTTPS == <<"h", "t", "t", "p", "s", ":", "/", "/">>

\* http://h/a.png
UrlA == HTTP \o <<"h", "/", "a", ".", "p", "n", "g">>
\* https://H/b?q  (upper-case host, query, no extension)
UrlB == HTTPS \o <<"H", "/", "b", "?", "q">>
\* the locators the callers resolve and the server redirects to
Urls == {UrlA, UrlB}
\* http://h/a.png#x  (UrlA with a fragment)
UrlAFrag == UrlA \o <<"#", "x">>
\* http://h  (no path segment)
UrlC == HTTP \o <<"h">>
\* http://h/r  (a resource that has moved to /a.png on the same host)
UrlR == HTTP \o <<"h", "/", "r">>
\* /a.png: the Location header value that names UrlA relative to its host
RelA == <<"/", "a", ".", "p", "n", "g">>

\* /t/h.txt: an existing file with a known extension
PathTxt == <<"/", "t", "/", "h", ".", "t", "x", "t">>
\* d.bin: relative, existing below the working directory, extension not in the table
PathBin == <<"d", ".", "b", "i", "n">>
\* /t/A.PNG: an existing file with an upper-case extension
PathPng == <<"/", "t", "/", "A", ".", "P", "N", "G">>
\* /t/m.png: no file there
PathMissing == <<"/", "t", "/", "m", ".", "p", "n", "g">>

\* os.homedir()
homedir == <<"/", "u">>

(***************************************************************************)
(* src/src/storage.ts (file.ts part): helpers.                             *)
(***************************************************************************)
isUrl(s) == startsWith(s, HTTP) \/ startsWith(s, HTTPS)

\* The table as a sequence of <<extension, MIME type>> pairs; a MIME type is one element.
MIME_TYPES ==
  <<<<<<".", "j", "p", "g">>, <<"image/jpeg">>>>,
    <<<<".", "j", "p", "e", "g">>, <<"image/jpeg">>>>,
    <<<<".", "p", "n", "g">>, <<"image/png">>>>,
    <<<<".", "g", "i", "f">>, <<"image/gif">>>>,
    <<<<".", "w", "e", "b", "p">>, <<"image/webp">>>>,
    <<<<".", "s", "v", "g">>, <<"image/svg+xml">>>>,
    <<<<".", "m", "p", "4">>, <<"video/mp4">>>>,
    <<<<".", "w", "e", "b", "m">>, <<"video/webm">>>>,
    <<<<".", "m", "o", "v">>, <<"video/quicktime">>>>,
    <<<<".", "m", "p", "3">>, <<"audio/mpeg">>>>,
    <<<<".", "w", "a", "v">>, <<"audio/wav">>>>,
    <<<<".", "o", "g", "g">>, <<"audio/ogg">>>>,
    <<<<".", "f", "l", "a", "c">>, <<"audio/flac">>>>,
    <<<<".", "a", "a", "c">>, <<"audio/aac">>>>,
    <<<<".", "p", "d", "f">>, <<"application/pdf">>>>,
    <<<<".", "j", "s", "o", "n">>, <<"application/json">>>>,
    <<<<".", "t", "x", "t">>, <<"text/plain">>>>,
    <<<<".", "c", "s", "v">>, <<"text/csv">>>>,
    <<<<".", "h", "t", "m", "l">>, <<"text/html">>>>,
    <<<<".", "z", "i", "p">>, <<"application/zip">>>>,
    <<<<".", "t", "a", "r">>, <<"application/x-tar">>>>,
    <<<<".", "g", "z">>, <<"application/gzip">>>>>>

\* MIME_TYPES[ext]: the value of the entry with that key, undefined when there is none
MimeLookup(ext) ==
  LET I == {i \in 1..Len(MIME_TYPES) : MIME_TYPES[i][1] = ext}
  IN  IF I = {} THEN Undef ELSE Some(MIME_TYPES[CHOOSE i \in I : TRUE][2])

guessContentType(filePath) ==
  LET ext == toLowerCase(slice(filePath, lastIndexOf(filePath, ".")))
  IN  MimeLookup(ext)

(***************************************************************************)
(* new URL(url) for http(s) locators: host, pathname, search.              *)
(***************************************************************************)
\* 1-based index of the first element of s that is in cs, Len(s)+1 when none
FirstOf(s, cs) ==
  LET I == {i \in 1..Len(s) : s[i] \in cs}
  IN  IF I = {} THEN Len(s) + 1 ELSE CHOOSE j \in I : \A k \in I : j <= k

AfterScheme(url) ==
  IF startsWith(url, HTTPS) THEN SubSeq(url, Len(HTTPS) + 1, Len(url))
  ELSE SubSeq(url, Len(HTTP) + 1, Len(url))

UrlHost(url) ==
  LET r == AfterScheme(url)
  IN  toLowerCase(SubSeq(r, 1, FirstOf(r, {"/", "?", "#"}) - 1))

UrlPathname(url) ==
  LET r == AfterScheme(url)
      a == FirstOf(r, {"/", "?", "#"})
      t == SubSeq(r, a, Len(r))
      p == SubSeq(t, 1, FirstOf(t, {"?", "#"}) - 1)
  IN  IF p = <<>> THEN <<"/">> ELSE p

UrlSearch(url) ==
  LET r == AfterScheme(url)
      t == SubSeq(r, FirstOf(r, {"?", "#"}), Len(r))
      q == SubSeq(t, 1, FirstOf(t, {"#"}) - 1)
  IN  IF Len(q) <= 1 THEN <<>> ELSE q

\* new URL(url) throws TypeError (Invalid URL) when there is no host
UrlValid(url) == isUrl(url) /\ UrlHost(url) # <<>>

\* createHash("sha256").update(components).digest("hex").slice(0, 12), idealised:
\* one path element that is a different element for different components.
RECURSIVE Concat(_)
Concat(s) == IF s = <<>> THEN "" ELSE Head(s) \o Concat(Tail(s))

CacheKey(components) == <<"#" \o Concat(components)>>

Components(url) ==
  UrlHost(url) \o UrlPathname(url)
    \o (IF UrlSearch(url) # <<>> THEN UrlSearch(url) ELSE <<>>)

\* the cache file name: basename(parsed.pathname) || "download"
CacheFileName(url) ==
  IF basename(UrlPathname(url)) # <<>> THEN basename(UrlPathname(url)) ELSE <<"d", "o", "w", "n", "l", "o", "a", "d">>


(***************************************************************************)
(* State.                                                                  *)
(***************************************************************************)
VARIABLES
  dirs,       \* the directories that exist (paths)
  names,      \* the files that exist: path -> inode
  data,       \* inode -> its bytes (a sequence of chunks)
  pc,         \* where each call stands
  input,      \* each call's argument
  file,       \* each call's File object (uri, path, contentType, size, filename)
  cachePath,  \* _downloadUrl's local cachePath
  cur,        \* the locator of the request in flight (downloadToFile's url)
  resp,       \* the response being piped into the write stream
  fd,         \* the inode the write stream holds open, 0 when none
  pos,        \* the write stream's file position, in chunks
  err,        \* the error the call threw
  swallowed,  \* the error unlinkSync threw and the catch of line 233 ignored
  fetches,    \* how many times the call invoked the fetch (downloadToFile from _downloadUrl)
  io,         \* whether the call has made any node:fs or network call
  out,        \* the latest toJSON(): the call whose File it serialized and the record
  FILE_CACHE_DIR,  \* process.env.FILE_CACHE_DIR, the cache root override
  dl,         \* each download() call: its directory, its outputPath, the path it returned
  ans,        \* the answer of the latest exists() since the disk last changed, and the
              \* call whose File was asked (0: none)
  refreshed,  \* the call whose File ran refreshMetadata() since the disk last changed, or 0
  opts,       \* the options record handed to the metadata factories
  meta        \* the latest metadata item: the factory that made it and the item

vars ==
  <<dirs, names, data, pc, input, file, cachePath, cur, resp, fd, pos, err, swallowed,
    fetches, io, out, FILE_CACHE_DIR, dl, ans, refreshed, opts, meta>>

\* the environment, the download() calls and the exists() answers
metaVars == <<opts, meta>>

opVars == <<FILE_CACHE_DIR, dl, ans, refreshed, metaVars>>

(***************************************************************************)
(* The file system: node:fs calls.                                         *)
(***************************************************************************)
\* every node:fs call resolves its path against the working directory
existsSync(path) == resolve(path) \in DOMAIN names \/ resolve(path) \in dirs

\* statSync(path).size of a file
statSize(path) == Len(data[names[resolve(path)]])

\* an absolute path and all its ancestors: what mkdirSync(dir, {recursive: true}) creates
Ancestors(dir) ==
  {<<"/">>, dir} \cup {SubSeq(dir, 1, i - 1) : i \in {j \in 2..Len(dir) : dir[j] = "/"}}

mkdirSync(ds, dir) == ds \cup Strict(Ancestors, resolve(dir))

\* an inode lives while a name or an open descriptor refers to it
Live(nm, fds, d) ==
  [i \in {nm[x] : x \in DOMAIN nm} \cup ({fds[p] : p \in Procs} \ {0}) |-> d[i]]

\* faulty variant: the name is left in place
UnlinkNothing(nm, x) == nm

\* remove the name x
Unlink(nm, x) == [y \in DOMAIN nm \ {x} |-> nm[y]]

\* renameSync(from, to): the name `to` now refers to from's inode, `from` is gone
Rename(nm, from, to) ==
  [y \in (DOMAIN nm \ {from}) \cup {to} |-> IF y = to THEN nm[from] ELSE nm[y]]

\* a hole left by a write beyond the end of the file reads as zero bytes
Hole == <<0, 0>>

\* write(2) of one chunk at a file position
WriteAt(d, at, b) ==
  [i \in 1..(IF Len(d) > at + 1 THEN Len(d) ELSE at + 1) |->
     IF i = at + 1 THEN b ELSE IF i <= Len(d) THEN d[i] ELSE Hole]

(***************************************************************************)
(* The remote side: what a GET of a locator may answer.                    *)
(***************************************************************************)
UrlSeq == <<UrlA, UrlB, UrlC>>
\* the request carries host, path and query: the fragment is not sent
UrlIdxOf ==
  [u \in {UrlA, UrlB, UrlC, UrlAFrag} |->
     CHOOSE i \in 1..Len(UrlSeq) : Components(UrlSeq[i]) = Components(u)]
UrlIdx(u) == UrlIdxOf[u]

\* the resource behind a locator: BodyLen chunks, each naming the locator and its place
Body(u) == [k \in 1..BodyLen |-> <<UrlIdx(u), k>>]

\* the one-chunk page a 3xx answer carries
Page(u) == <<<<UrlIdx(u), 0>>>>

Responses(u) ==
  IF u = UrlR
    THEN \* a moved resource: Location names the new place relative to the host
         {[statusCode |-> 302, location |-> Some(RelA), body |-> <<>>]}
    ELSE {[statusCode |-> 200, location |-> Undef, body |-> Body(u)]}
         \cup {[statusCode |-> 302, location |-> Some(v), body |-> Page(u)] : v \in Urls}
         \cup {[statusCode |-> 300, location |-> Undef, body |-> Page(u)]}
         \cup {[statusCode |-> c, location |-> Undef, body |-> <<>>] : c \in {404}}

(***************************************************************************)
(* Errors.                                                                 *)
(***************************************************************************)
NoErr == [msg |-> "", url |-> <<>>, cause |-> [name |-> "", code |-> 0]]
NoCause == [name |-> "", code |-> 0]

\* new Error("Either 'uri' or 'path' must be provided")
InvalidInput ==
  [msg |-> "Either 'uri' or 'path' must be provided", url |-> <<>>, cause |-> NoCause]

\* new Error("Either 'uri' or 'path' must be provided and be valid")
ResolutionFailed ==
  [msg |-> "Either 'uri' or 'path' must be provided and be valid", url |-> <<>>,
   cause |-> NoCause]

\* the TypeError of new URL(url)
InvalidURL(url) == [msg |-> "Invalid URL", url |-> url, cause |-> NoCause]

\* new Error(`Failed to download ${url}: ${err.message}`)
TransferFailed(url, cause) == [msg |-> "Failed to download", url |-> url, cause |-> cause]


(***************************************************************************)
(* The arguments of the calls.                                             *)
(***************************************************************************)
\* a string argument
Str(x) ==
  [kind |-> "string", s |-> x, uri |-> Undef, path |-> Undef, content_type |-> Undef,
   contentType |-> Undef, size |-> Undef, filename |-> Undef]

\* a descriptor argument (FileData & FileOptions)
Desc(u, pa, m) ==
  [kind |-> "data", s |-> <<>>, uri |-> u, path |-> pa, content_type |-> m.content_type,
   contentType |-> m.contentType, size |-> m.size, filename |-> m.filename]

NoInput == Str(<<>>)

\* the metadata a descriptor may carry: none, the snake-case content type, or the
\* camel-case content type with a size and a file name
NoMeta == [content_type |-> Undef, contentType |-> Undef, size |-> Undef, filename |-> Undef]
SnakeMeta == [NoMeta EXCEPT !.content_type = Some(<<"a/b">>)]
FullMeta ==
  [NoMeta EXCEPT !.contentType = Some(<<"c/d">>), !.size = Some(5), !.filename = Some(<<"n">>)]

StringInputs == {Str(x) : x \in {<<>>, UrlA, PathTxt, PathBin, PathPng, PathMissing}}

DescInputs ==
  {Desc(Undef, Undef, NoMeta),
   Desc(Some(<<>>), Some(<<>>), NoMeta),
   Desc(Undef, Some(<<>>), FullMeta),
   Desc(Undef, Some(PathTxt), NoMeta),
   Desc(Undef, Some(PathTxt), SnakeMeta),
   Desc(Undef, Some(PathTxt), FullMeta),
   Desc(Undef, Some(PathBin), NoMeta),
   Desc(Undef, Some(PathMissing), NoMeta),
   Desc(Undef, Some(PathMissing), FullMeta),
   Desc(Some(PathBin), Undef, NoMeta),
   Desc(Some(PathBin), Some(PathTxt), NoMeta),
   Desc(Some(UrlA), Some(PathMissing), FullMeta)}

\* descriptors of local files: both spellings of the content type at once, and
\* metadata supplied as empty strings and a size of zero
BothMeta == [NoMeta EXCEPT !.content_type = Some(<<"a/b">>), !.contentType = Some(<<"c/d">>)]
EmptyMeta ==
  [NoMeta EXCEPT !.contentType = Some(<<>>), !.size = Some(0), !.filename = Some(<<>>)]

MetaInputs ==
  {Desc(Undef, Some(pa), m) :
     pa \in {PathTxt, PathBin, PathMissing},
     m \in {NoMeta, SnakeMeta, FullMeta, BothMeta, EmptyMeta}}

Inputs == StringInputs \cup DescInputs

LocalPaths == {PathTxt, PathBin, PathPng, PathMissing, UrlA}

(***************************************************************************)
(* class File (src/src/storage.ts, file.ts part).                          *)
(***************************************************************************)
NoFile ==
  [uri |-> Undef, path |-> Undef, contentType |-> Undef, size |-> Undef,
   filename |-> Undef]

\* faulty variant: the camel-case spelling wins over the snake-case one
OptionsCamelFirst(inp) ==
  IF inp.kind = "string"
    THEN [NoFile EXCEPT !.uri = Some(inp.s)]
    ELSE [uri |-> inp.uri, path |-> inp.path,
          contentType |-> IF IsSet(inp.contentType) THEN inp.contentType
                          ELSE inp.content_type,
          size |-> inp.size, filename |-> inp.filename]

\* File.from, lines 115-128: the options of a string or descriptor argument
Options(inp) ==
  IF inp.kind = "string"
    THEN [NoFile EXCEPT !.uri = Some(inp.s)]
    ELSE [uri |-> inp.uri, path |-> inp.path,
          contentType |-> IF IsSet(inp.content_type) THEN inp.content_type
                          ELSE inp.contentType,
          size |-> inp.size, filename |-> inp.filename]

\* faulty variant: only undefined counts as missing, "" passes
LacksBothUndefinedOnly(o) == ~IsSet(o.uri) /\ ~IsSet(o.path)

\* faulty variant: an empty path counts as a path
LacksBothPathAnyString(o) == ~truthy(o.uri) /\ ~IsSet(o.path)

\* File.from, line 130: !options.uri && !options.path
LacksBoth(o) == ~truthy(o.uri) /\ ~truthy(o.path)

\* faulty variant: the size is never read from the file
populateMetadataNoSize(f) ==
  IF ~truthy(f.path) \/ ~existsSync(Val(f.path)) THEN f
  ELSE [f EXCEPT
          !.contentType = IF ~truthy(@) THEN guessContentType(Val(f.path)) ELSE @,
          !.filename = IF ~truthy(@) THEN Some(basename(Val(f.path))) ELSE @]

\* faulty variant: the content type is always guessed from the path
populateMetadataGuessAlways(f) ==
  IF ~truthy(f.path) \/ ~existsSync(Val(f.path)) THEN f
  ELSE [f EXCEPT
          !.contentType = guessContentType(Val(f.path)),
          !.size = IF ~IsSet(@) /\ resolve(Val(f.path)) \in DOMAIN names
                     THEN Some(statSize(Val(f.path))) ELSE @,
          !.filename = IF ~truthy(@) THEN Some(basename(Val(f.path))) ELSE @]

\* File._populateMetadata
populateMetadata(f) ==
  IF ~truthy(f.path) \/ ~existsSync(Val(f.path)) THEN f
  ELSE [f EXCEPT
          !.contentType = IF ~truthy(@) THEN guessContentType(Val(f.path)) ELSE @,
          !.size = IF ~IsSet(@) /\ resolve(Val(f.path)) \in DOMAIN names
                     THEN Some(statSize(Val(f.path))) ELSE @,
          !.filename = IF ~truthy(@) THEN Some(basename(Val(f.path))) ELSE @]

\* faulty variant: the uri key is always written, with a placeholder when there is no uri
toJSONAlwaysUri(f) ==
  LET keys == {"uri"}
              \cup (IF IsSet(f.path) THEN {"path"} ELSE {})
              \cup (IF IsSet(f.contentType) THEN {"content_type"} ELSE {})
              \cup (IF IsSet(f.size) THEN {"size"} ELSE {})
              \cup (IF IsSet(f.filename) THEN {"filename"} ELSE {})
  IN  [k \in keys |->
         CASE k = "uri" -> IF IsSet(f.uri) THEN Val(f.uri) ELSE <<>>
           [] k = "path" -> Val(f.path)
           [] k = "content_type" -> Val(f.contentType)
           [] k = "size" -> Val(f.size)
           [] k = "filename" -> Val(f.filename)]

\* File.toJSON: the keys are the fields that are not null
toJSON(f) ==
  LET keys == (IF IsSet(f.uri) THEN {"uri"} ELSE {})
              \cup (IF IsSet(f.path) THEN {"path"} ELSE {})
              \cup (IF IsSet(f.contentType) THEN {"content_type"} ELSE {})
              \cup (IF IsSet(f.size) THEN {"size"} ELSE {})
              \cup (IF IsSet(f.filename) THEN {"filename"} ELSE {})
  IN  [k \in keys |->
         CASE k = "uri" -> Val(f.uri)
           [] k = "path" -> Val(f.path)
           [] k = "content_type" -> Val(f.contentType)
           [] k = "size" -> Val(f.size)
           [] k = "filename" -> Val(f.filename)]

\* join(homedir(), ".cache", "inferencesh", "files")
DefaultCacheDir ==
  join(join(join(homedir, <<".", "c", "a", "c", "h", "e">>), <<"i", "n", "f", "e", "r", "e", "n", "c", "e", "s", "h">>), <<"f", "i", "l", "e", "s">>)

\* File.getCacheDir: the directory (mkdirSync is applied by the caller's action);
\* process.env.FILE_CACHE_DIR is read at every call
getCacheDir ==
  IF truthy(FILE_CACHE_DIR) THEN Val(FILE_CACHE_DIR) ELSE DefaultCacheDir

\* the layout shared by File._getCachePath and download: <root>/<hash>/<file name>
hashDirIn(root, url) == join(root, CacheKey(Components(url)))
cachePathIn(root, url) == join(hashDirIn(root, url), CacheFileName(url))

\* File._getCachePath
hashDir(url) == hashDirIn(getCacheDir, url)
\* faulty variant: the key is taken over the whole locator, fragment included
getCachePathWholeLocator(url) ==
  join(join(getCacheDir, <<"#" \o Concat(url)>>), CacheFileName(url))

getCachePath(url) == cachePathIn(getCacheDir, url)

tmpPath(p) == cachePath[p] \o <<".", "t", "m", "p">>


(***************************************************************************)
(* Initial state: the files the callers already have on disk.              *)
(***************************************************************************)
\* a call that is no download() call
NoDl == [directory |-> <<>>, outputPath |-> <<>>, ret |-> Undef]

NoResp == [statusCode |-> 0, location |-> Undef, body |-> <<>>]

\* a response whose body was dropped: only its status is still known
Released(r) == [NoResp EXCEPT !.statusCode = r.statusCode]

\* the state of the file system, the calls and the environment at the start
InitFile ==
  /\ dirs = {<<"/">>, <<"/", "t">>, Cwd, homedir}
  /\ names = [x \in {PathTxt, resolve(PathBin), PathPng} |->
                CASE x = PathTxt -> 11 [] x = PathPng -> 12 [] OTHER -> 13]
  /\ data = [i \in {11, 12, 13} |->
               CASE i = 11 -> <<<<0, 1>>, <<0, 2>>, <<0, 3>>>>
                 [] i = 12 -> <<>>
                 [] OTHER -> <<<<0, 1>>>>]
  /\ pc = [p \in Procs |-> "idle"]
  /\ input = [p \in Procs |-> NoInput]
  /\ file = [p \in Procs |-> NoFile]
  /\ cachePath = [p \in Procs |-> <<>>]
  /\ cur = [p \in Procs |-> <<>>]
  /\ resp = [p \in Procs |-> NoResp]
  /\ fd = [p \in Procs |-> 0]
  /\ pos = [p \in Procs |-> 0]
  /\ err = [p \in Procs |-> NoErr]
  /\ swallowed = [p \in Procs |-> ""]
  /\ fetches = [p \in Procs |-> 0]
  /\ io = [p \in Procs |-> FALSE]
  /\ out = [of |-> 0, json |-> [k \in {} |-> <<>>]]
  /\ FILE_CACHE_DIR = Undef
  /\ dl = [p \in Procs |-> NoDl]
  /\ ans = [of |-> 0, exists |-> FALSE]
  /\ refreshed = 0

\* no metadata item was made yet
NoItem == [by |-> "", item |-> <<>>]

Init == InitFile /\ opts = <<>> /\ meta = NoItem

fsVars == <<dirs, names, data>>
netVars == <<cachePath, cur, resp, fd, pos, swallowed, fetches>>

\* calls are numbered in the order in which the callers issue them
MayStart(p) == pc[p] = "idle" /\ \A q \in Procs : q < p => pc[q] # "idle"

\* a rejection of downloadToFile's promise, before _downloadUrl's catch wraps it
Rejected(name, code) == [NoErr EXCEPT !.cause = [name |-> name, code |-> code]]

(***************************************************************************)
(* File.from(input) on a string or descriptor.                             *)
(***************************************************************************)
\* lines 115-132: neither uri nor path
FromInvalid(p, inp) ==
  /\ MayStart(p)
  /\ LacksBoth(Options(inp))
  /\ input' = [input EXCEPT ![p] = inp]
  /\ pc' = [pc EXCEPT ![p] = "failed"]
  /\ err' = [err EXCEPT ![p] = InvalidInput]
  /\ UNCHANGED <<fsVars, netVars, file, io, out>>
  /\ UNCHANGED opVars

\* lines 146-151 applied to the File f: the File returned, or the second error
FromTail(p, f) ==
  IF truthy(f.path)
    THEN /\ file' = [file EXCEPT ![p] =
                       populateMetadata([f EXCEPT !.path = Some(resolve(Val(f.path)))])]
         /\ pc' = [pc EXCEPT ![p] = "done"]
         /\ io' = [io EXCEPT ![p] = TRUE]
         /\ err' = err
    ELSE /\ file' = [file EXCEPT ![p] = f]
         /\ pc' = [pc EXCEPT ![p] = "failed"]
         /\ io' = io
         /\ err' = [err EXCEPT ![p] = ResolutionFailed]

\* line 137-138: the uri is a remote locator
IsRemote(o) == truthy(o.uri) /\ isUrl(Val(o.uri))

\* lines 134-153 without a remote locator: no await, one step
FromLocal(p, inp) ==
  /\ MayStart(p)
  /\ ~LacksBoth(Options(inp))
  /\ ~IsRemote(Options(inp))
  /\ input' = [input EXCEPT ![p] = inp]
  /\ LET o == Options(inp)
         f == IF truthy(o.uri) THEN [o EXCEPT !.path = Some(resolve(Val(o.uri)))] ELSE o
     IN  FromTail(p, f)
  /\ UNCHANGED <<fsVars, netVars, out>>
  /\ UNCHANGED opVars

\* faulty variant: the cache is never consulted
CacheHitNever(cp) == FALSE

\* faulty variant: the leftover temporary file counts as a cache entry
CacheHitOrTemp(cp) == existsSync(cp) \/ existsSync(cp \o <<".", "t", "m", "p">>)

\* _downloadUrl line 221: the cache hit test
CacheHit(cp) == existsSync(cp)

\* lines 134-139 and _downloadUrl up to the fetch: cache hit, or the request is sent
FromRemote(p, inp) ==
  /\ MayStart(p)
  /\ ~LacksBoth(Options(inp))
  /\ IsRemote(Options(inp))
  /\ input' = [input EXCEPT ![p] = inp]
  /\ LET o == Options(inp)
         url == Val(o.uri)
         cp == getCachePath(url)
     IN  IF ~UrlValid(url)
           THEN /\ pc' = [pc EXCEPT ![p] = "failed"]
                /\ err' = [err EXCEPT ![p] = InvalidURL(url)]
                /\ file' = [file EXCEPT ![p] = o]
                /\ UNCHANGED <<fsVars, netVars, io>>
           ELSE /\ dirs' = mkdirSync(mkdirSync(dirs, getCacheDir), hashDir(url))
                /\ cachePath' = [cachePath EXCEPT ![p] = cp]
                /\ io' = [io EXCEPT ![p] = TRUE]
                /\ IF CacheHit(cp)
                     THEN /\ file' = [file EXCEPT ![p] = [o EXCEPT !.path = Some(cp)]]
                          /\ pc' = [pc EXCEPT ![p] = "resolved"]
                          /\ UNCHANGED <<cur, fetches>>
                     ELSE /\ file' = [file EXCEPT ![p] = o]
                          /\ pc' = [pc EXCEPT ![p] = "fetch"]
                          /\ cur' = [cur EXCEPT ![p] = url]
                          /\ fetches' = [fetches EXCEPT ![p] = @ + 1]
                /\ UNCHANGED <<names, data, resp, fd, pos, err, swallowed>>
  /\ out' = out
  /\ UNCHANGED opVars

(***************************************************************************)
(* downloadToFile(url, destPath): the response callback.                   *)
(***************************************************************************)
\* line 270: statusCode in 300..399 and a Location header
IsRedirect(r) == r.statusCode >= 300 /\ r.statusCode < 400 /\ truthy(r.location)

\* line 275: statusCode of 400 or more
IsHttpError(r) == r.statusCode >= 400

\* lines 270-273: a 3xx answer with a Location header starts the next request
Redirect(p) ==
  /\ pc[p] = "fetch"
  /\ \E r \in Responses(cur[p]) :
       /\ IsRedirect(r)
       /\ IF UrlValid(Val(r.location))
            THEN /\ cur' = [cur EXCEPT ![p] = Val(r.location)]
                 /\ UNCHANGED <<pc, err>>
            ELSE \* line 265 of the nested call: new URL(location) throws, which
                 \* rejects the nested promise and with it the outer one
                 /\ err' = [err EXCEPT ![p] = Rejected("Invalid URL", 0)]
                 /\ pc' = [pc EXCEPT ![p] = "catch"]
                 /\ cur' = [cur EXCEPT ![p] = <<>>]
  /\ UNCHANGED <<fsVars, input, file, cachePath, resp, fd, pos, swallowed,
                 fetches, io, out>>
  /\ UNCHANGED opVars

\* lines 275-278: a status of 400 or more rejects with "HTTP <status>"
HttpError(p) ==
  /\ pc[p] = "fetch"
  /\ \E r \in Responses(cur[p]) :
       /\ ~IsRedirect(r)
       /\ IsHttpError(r)
       /\ err' = [err EXCEPT ![p] = Rejected("HTTP", r.statusCode)]
  /\ pc' = [pc EXCEPT ![p] = "catch"]
  /\ cur' = [cur EXCEPT ![p] = <<>>]
  /\ UNCHANGED <<fsVars, input, file, cachePath, resp, fd, pos, swallowed, fetches, io, out>>
  /\ UNCHANGED opVars

\* line 292: the request fails before any response
RequestError(p) ==
  /\ pc[p] = "fetch"
  /\ err' = [err EXCEPT ![p] = Rejected("ECONNREFUSED", 0)]
  /\ pc' = [pc EXCEPT ![p] = "catch"]
  /\ cur' = [cur EXCEPT ![p] = <<>>]
  /\ UNCHANGED <<fsVars, input, file, cachePath, resp, fd, pos, swallowed, fetches, io, out>>
  /\ UNCHANGED opVars

\* lines 280-284: any other answer is piped into a write stream on destPath
Accept(p) ==
  /\ pc[p] = "fetch"
  /\ \E r \in Responses(cur[p]) :
       /\ ~IsRedirect(r)
       /\ ~IsHttpError(r)
       /\ resp' = [resp EXCEPT ![p] = r]
  /\ dirs' = mkdirSync(dirs, join(tmpPath(p), <<".", ".">>))
  /\ pc' = [pc EXCEPT ![p] = "open"]
  /\ cur' = [cur EXCEPT ![p] = <<>>]
  /\ UNCHANGED <<names, data, input, file, cachePath, fd, pos, err, swallowed, fetches, io,
                 out>>
  /\ UNCHANGED opVars

\* createWriteStream(destPath) opens with flags "w": create, or truncate what is there
OpenStream(p) ==
  /\ pc[p] = "open"
  /\ LET tmp == resolve(tmpPath(p))
         ino == IF tmp \in DOMAIN names THEN names[tmp] ELSE p
     IN  /\ names' = [x \in DOMAIN names \cup {tmp} |-> IF x = tmp THEN ino ELSE names[x]]
         /\ data' = [i \in DOMAIN data \cup {ino} |-> IF i = ino THEN <<>> ELSE data[i]]
         /\ fd' = [fd EXCEPT ![p] = ino]
  /\ pos' = [pos EXCEPT ![p] = 0]
  /\ pc' = [pc EXCEPT ![p] = IF resp[p].body = <<>> THEN "finish" ELSE "write"]
  /\ UNCHANGED <<dirs, input, file, cachePath, cur, resp, err, swallowed, fetches, io, out>>
  /\ UNCHANGED opVars

\* response.pipe(stream): one chunk is written at the stream's position
WriteChunk(p) ==
  /\ pc[p] = "write"
  /\ data' = [data EXCEPT ![fd[p]] = WriteAt(@, pos[p], resp[p].body[pos[p] + 1])]
  /\ pos' = [pos EXCEPT ![p] = @ + 1]
  /\ pc' = [pc EXCEPT ![p] = IF pos[p] + 1 = Len(resp[p].body) THEN "finish" ELSE "write"]
  /\ UNCHANGED <<dirs, names, input, file, cachePath, cur, resp, fd, err, swallowed,
                 fetches, io, out>>
  /\ UNCHANGED opVars

\* line 289: the write stream fails (open or write error) and is destroyed
StreamError(p) ==
  /\ pc[p] \in {"open", "write"}
  /\ fd' = [fd EXCEPT ![p] = 0]
  /\ data' = Live(names, fd', data)
  /\ err' = [err EXCEPT ![p] = Rejected("EIO write", 0)]
  /\ pc' = [pc EXCEPT ![p] = "catch"]
  /\ resp' = [resp EXCEPT ![p] = Released(@)]
  /\ pos' = [pos EXCEPT ![p] = 0]
  /\ UNCHANGED <<dirs, names, input, file, cachePath, cur, swallowed, fetches, io, out>>
  /\ UNCHANGED opVars

(***************************************************************************)
(* File._downloadUrl after the fetch.                                      *)
(***************************************************************************)
\* lines 285-288 and 230-231: the stream finished and is closed, the rename commits
Commit(p) ==
  /\ pc[p] = "finish"
  /\ resolve(tmpPath(p)) \in DOMAIN names
  /\ fd' = [fd EXCEPT ![p] = 0]
  /\ names' = Rename(names, resolve(tmpPath(p)), resolve(cachePath[p]))
  /\ data' = Live(names', fd', data)
  /\ file' = [file EXCEPT ![p].path = Some(cachePath[p])]
  /\ pc' = [pc EXCEPT ![p] = "resolved"]
  /\ pos' = [pos EXCEPT ![p] = 0]
  /\ UNCHANGED <<dirs, input, cachePath, cur, resp, err, swallowed, fetches, io, out>>
  /\ UNCHANGED opVars

\* line 230 throws: the temporary path is gone (ENOENT) or the rename is refused
RenameFails(p) ==
  /\ pc[p] = "finish"
  /\ fd' = [fd EXCEPT ![p] = 0]
  /\ data' = Live(names, fd', data)
  /\ err' = [err EXCEPT ![p] =
               Rejected(IF resolve(tmpPath(p)) \in DOMAIN names THEN "EACCES rename"
                        ELSE "ENOENT rename", 0)]
  /\ pc' = [pc EXCEPT ![p] = "catch"]
  /\ resp' = [resp EXCEPT ![p] = Released(@)]
  /\ pos' = [pos EXCEPT ![p] = 0]
  /\ UNCHANGED <<dirs, names, input, file, cachePath, cur, swallowed, fetches, io, out>>
  /\ UNCHANGED opVars

\* lines 232-234: the temporary path is deleted, the failure is rethrown
CatchUnlink(p) ==
  /\ pc[p] = "catch"
  /\ resolve(tmpPath(p)) \in DOMAIN names
  /\ names' = Unlink(names, resolve(tmpPath(p)))
  /\ data' = Live(names', fd, data)
  /\ err' = [err EXCEPT ![p] = TransferFailed(Val(file[p].uri), err[p].cause)]
  /\ pc' = [pc EXCEPT ![p] = "failed"]
  /\ UNCHANGED <<dirs, input, file, netVars, io, out>>
  /\ UNCHANGED opVars

\* lines 232-234: unlinkSync throws (nothing to delete, or refused); that is ignored
CatchSwallow(p) ==
  /\ pc[p] = "catch"
  /\ swallowed' = [swallowed EXCEPT ![p] =
                     IF resolve(tmpPath(p)) \in DOMAIN names THEN "EPERM unlink"
                     ELSE "ENOENT unlink"]
  /\ err' = [err EXCEPT ![p] = TransferFailed(Val(file[p].uri), err[p].cause)]
  /\ pc' = [pc EXCEPT ![p] = "failed"]
  /\ UNCHANGED <<fsVars, input, file, cachePath, cur, resp, fd, pos, fetches, io, out>>
  /\ UNCHANGED opVars

\* File.from lines 146-153 after the await of _downloadUrl
FromResolved(p) ==
  /\ pc[p] = "resolved"
  /\ input[p].kind # "download"
  /\ FromTail(p, file[p])
  /\ UNCHANGED <<fsVars, input, netVars, out>>
  /\ UNCHANGED opVars

(***************************************************************************)
(* File.fromPath and File.toJSON.                                          *)
(***************************************************************************)
\* faulty variant: the path is taken as given, not resolved
FromPathAsGiven(p, localPath) ==
  /\ MayStart(p)
  /\ input' = [input EXCEPT ![p] = [Str(localPath) EXCEPT !.kind = "fromPath"]]
  /\ file' = [file EXCEPT ![p] = populateMetadata([NoFile EXCEPT !.path = Some(localPath)])]
  /\ pc' = [pc EXCEPT ![p] = "done"]
  /\ io' = [io EXCEPT ![p] = TRUE]
  /\ UNCHANGED <<fsVars, netVars, err, out>>
  /\ UNCHANGED opVars

FromPath(p, localPath) ==
  /\ MayStart(p)
  /\ input' = [input EXCEPT ![p] = [Str(localPath) EXCEPT !.kind = "fromPath"]]
  /\ file' = [file EXCEPT ![p] =
                populateMetadata([NoFile EXCEPT !.path = Some(resolve(localPath))])]
  /\ pc' = [pc EXCEPT ![p] = "done"]
  /\ io' = [io EXCEPT ![p] = TRUE]
  /\ UNCHANGED <<fsVars, netVars, err, out>>
  /\ UNCHANGED opVars

ToJSON(p) ==
  /\ pc[p] = "done"
  /\ out' = [of |-> p, json |-> toJSON(file[p])]
  /\ UNCHANGED <<fsVars, pc, input, file, netVars, err, io>>
  /\ UNCHANGED opVars

(***************************************************************************)
(* File.from(input) on a File, exists(), refreshMetadata().                *)
(***************************************************************************)
\* call q returned a File the caller still holds
HoldsFile(q) == pc[q] = "done" /\ input[q].kind # "download"

\* faulty variant: the copy resolves the original's locator again instead of taking its fields
FromFileResolving(p, q) ==
  /\ MayStart(p)
  /\ HoldsFile(q)
  /\ input' = [input EXCEPT ![p] =
                 [kind |-> "file", s |-> <<>>, uri |-> file[q].uri, path |-> file[q].path,
                  content_type |-> Undef, contentType |-> file[q].contentType,
                  size |-> file[q].size, filename |-> file[q].filename]]
  /\ file' = [file EXCEPT ![p] =
                populateMetadata([uri |-> file[q].uri, path |-> file[q].path,
                                  contentType |-> Undef, size |-> Undef,
                                  filename |-> Undef])]
  /\ pc' = [pc EXCEPT ![p] = "done"]
  /\ UNCHANGED <<fsVars, netVars, err, io, out, opVars>>

\* lines 105-113: the five fields are copied; the argument is kept as the call's input
FromFile(p, q) ==
  /\ MayStart(p)
  /\ HoldsFile(q)
  /\ input' = [input EXCEPT ![p] =
                 [kind |-> "file", s |-> <<>>, uri |-> file[q].uri, path |-> file[q].path,
                  content_type |-> Undef, contentType |-> file[q].contentType,
                  size |-> file[q].size, filename |-> file[q].filename]]
  /\ file' = [file EXCEPT ![p] =
                [uri |-> file[q].uri, path |-> file[q].path,
                 contentType |-> file[q].contentType, size |-> file[q].size,
                 filename |-> file[q].filename]]
  /\ pc' = [pc EXCEPT ![p] = "done"]
  /\ UNCHANGED <<fsVars, netVars, err, io, out, opVars>>

\* faulty variant: the answer is what the metadata remembers of the construction
existsRemembered(f) == IsSet(f.size)

\* File.exists
exists(f) == IsSet(f.path) /\ existsSync(Val(f.path))

Exists(p) ==
  /\ HoldsFile(p)
  /\ ans' = [of |-> p, exists |-> exists(file[p])]
  /\ UNCHANGED <<fsVars, pc, input, file, netVars, err, io, out, FILE_CACHE_DIR, dl, metaVars,
                 refreshed>>

\* File.refreshMetadata
RefreshMetadata(p) ==
  /\ HoldsFile(p)
  /\ file' = [file EXCEPT ![p] = populateMetadata(@)]
  /\ refreshed' = p
  /\ UNCHANGED <<fsVars, pc, input, netVars, err, io, out, FILE_CACHE_DIR, dl, ans, metaVars>>

(***************************************************************************)
(* The callers' own changes to the files their File objects name.          *)
(***************************************************************************)
\* inode of a file the caller creates at the path of call p's File
CallerInode(p) == 20 + p

\* the contents a caller writes: an empty file, or NewLen chunks
NewContents == {<<>>, [k \in 1..NewLen |-> <<9, k>>]}

\* the caller deletes the file at the path of call p's File
CallerRemove(p) ==
  /\ HoldsFile(p)
  /\ IsSet(file[p].path)
  /\ resolve(Val(file[p].path)) \in DOMAIN names
  /\ names' = Unlink(names, resolve(Val(file[p].path)))
  /\ data' = Live(names', fd, data)
  /\ refreshed' = 0
  /\ ans' = [of |-> 0, exists |-> FALSE]
  /\ UNCHANGED <<dirs, pc, input, file, netVars, err, io, out, FILE_CACHE_DIR, dl, metaVars>>

\* the caller writes the file at the path of call p's File: created, or its content replaced
CallerWrite(p, content) ==
  /\ HoldsFile(p)
  /\ IsSet(file[p].path)
  /\ resolve(Val(file[p].path)) \notin dirs
  /\ LET x == resolve(Val(file[p].path))
         ino == IF x \in DOMAIN names THEN names[x] ELSE CallerInode(p)
     IN  /\ names' = [y \in DOMAIN names \cup {x} |-> IF y = x THEN ino ELSE names[y]]
         /\ data' = [i \in DOMAIN data \cup {ino} |-> IF i = ino THEN content ELSE data[i]]
         /\ data'[ino] # IF ino \in DOMAIN data THEN data[ino] ELSE <<0>>
  /\ refreshed' = 0
  /\ ans' = [of |-> 0, exists |-> FALSE]
  /\ UNCHANGED <<dirs, pc, input, file, netVars, err, io, out, FILE_CACHE_DIR, dl, metaVars>>

\* the caller (or an eviction) deletes the cache entry that call p resolved through
CallerEvict(p) ==
  /\ pc[p] = "done"
  /\ cachePath[p] # <<>>
  /\ resolve(cachePath[p]) \in DOMAIN names
  /\ names' = Unlink(names, resolve(cachePath[p]))
  /\ data' = Live(names', fd, data)
  /\ refreshed' = 0
  /\ ans' = [of |-> 0, exists |-> FALSE]
  /\ UNCHANGED <<dirs, pc, input, file, netVars, err, io, out, FILE_CACHE_DIR, dl, metaVars>>

(***************************************************************************)
(* The environment: process.env.FILE_CACHE_DIR.                            *)
(***************************************************************************)
\* the values the variable may be given: unset, or a directory relative to the
\* working directory
EnvValues == {Undef, Some(<<"r">>)}

\* the application assigns or deletes process.env.FILE_CACHE_DIR
SetEnv(v) ==
  /\ FILE_CACHE_DIR # v
  /\ FILE_CACHE_DIR' = v
  /\ UNCHANGED <<fsVars, pc, input, file, netVars, err, io, out, dl, ans, refreshed,
                 metaVars>>

(***************************************************************************)
(* download(url, directory).                                               *)
(***************************************************************************)
\* StorageDir.TEMP and StorageDir.DATA
StorageDirTEMP == <<"/", "a", "p", "p", "/", "t", "m", "p">>
StorageDirDATA == <<"/", "a", "p", "p", "/", "d", "a", "t", "a">>

\* faulty variant: an existing target is returned in every directory
SkipsExistingAlways(directory) == TRUE

\* faulty variant: an existing target is returned in no directory
SkipsExistingNever(directory) == FALSE

\* line 39: directory !== StorageDir.TEMP
SkipsExisting(directory) == directory # StorageDirTEMP

\* inode of the copy that download call p creates at its output path
CopyInode(p) == 30 + p

\* lines 24-44: up to the return of the existing target, or into File.from(url) up to
\* its cache hit or its request
Download(p, url, directory) ==
  /\ MayStart(p)
  /\ input' = [input EXCEPT ![p] = [Str(url) EXCEPT !.kind = "download"]]
  /\ LET ds1 == mkdirSync(dirs, directory)
         outputPath == cachePathIn(directory, url)
         ds2 == mkdirSync(ds1, hashDirIn(directory, url))
         o == Options(Str(url))
         cp == getCachePath(url)
     IN  IF ~UrlValid(url)
           THEN /\ dirs' = ds1
                /\ pc' = [pc EXCEPT ![p] = "failed"]
                /\ err' = [err EXCEPT ![p] = InvalidURL(url)]
                /\ dl' = [dl EXCEPT ![p] = [NoDl EXCEPT !.directory = directory]]
                /\ io' = [io EXCEPT ![p] = TRUE]
                /\ UNCHANGED <<names, data, netVars, file>>
           ELSE /\ dl' = [dl EXCEPT ![p] = [directory |-> directory,
                                             outputPath |-> outputPath,
                                             ret |-> IF /\ resolve(outputPath) \in DOMAIN names \cup ds2
                                                        /\ SkipsExisting(directory)
                                                      THEN Some(outputPath) ELSE Undef]]
                /\ io' = [io EXCEPT ![p] = TRUE]
                /\ IF IsSet(dl'[p].ret)
                     THEN /\ dirs' = ds2
                          /\ pc' = [pc EXCEPT ![p] = "done"]
                          /\ UNCHANGED <<names, data, netVars, file, err>>
                     ELSE /\ dirs' = mkdirSync(mkdirSync(ds2, getCacheDir), hashDir(url))
                          /\ cachePath' = [cachePath EXCEPT ![p] = cp]
                          /\ IF resolve(cp) \in DOMAIN names \cup ds2 /\ CacheHit(cp)
                               THEN /\ file' = [file EXCEPT ![p] = [o EXCEPT !.path = Some(cp)]]
                                    /\ pc' = [pc EXCEPT ![p] = "resolved"]
                                    /\ UNCHANGED <<cur, fetches>>
                               ELSE /\ file' = [file EXCEPT ![p] = o]
                                    /\ pc' = [pc EXCEPT ![p] = "fetch"]
                                    /\ cur' = [cur EXCEPT ![p] = url]
                                    /\ fetches' = [fetches EXCEPT ![p] = @ + 1]
                          /\ UNCHANGED <<names, data, resp, fd, pos, err, swallowed>>
  /\ UNCHANGED <<out, FILE_CACHE_DIR, ans, refreshed, metaVars>>

\* File.from lines 146-153 inside download: the File is returned to download
DownloadFileReady(p) ==
  /\ pc[p] = "resolved"
  /\ input[p].kind = "download"
  /\ file' = [file EXCEPT ![p] =
                populateMetadata([file[p] EXCEPT !.path = Some(resolve(Val(file[p].path)))])]
  /\ pc' = [pc EXCEPT ![p] = "copy"]
  /\ UNCHANGED <<fsVars, input, netVars, err, io, out, opVars>>

\* lines 45-48: copyFileSync(file.path, outputPath) and the return of outputPath
DownloadCopy(p) ==
  /\ pc[p] = "copy"
  /\ LET src == resolve(Val(file[p].path))
         dst == resolve(dl[p].outputPath)
     IN  IF src \notin DOMAIN names
           THEN /\ pc' = [pc EXCEPT ![p] = "failed"]
                /\ err' = [err EXCEPT ![p] =
                             [msg |-> "ENOENT copyfile", url |-> Val(file[p].uri),
                              cause |-> NoCause]]
                /\ UNCHANGED <<names, data, dl>>
           ELSE LET ino == IF dst \in DOMAIN names THEN names[dst] ELSE CopyInode(p)
                IN  /\ names' = [y \in DOMAIN names \cup {dst} |->
                                   IF y = dst THEN ino ELSE names[y]]
                    /\ data' = [i \in DOMAIN data \cup {ino} |->
                                  IF i = ino THEN data[names[src]] ELSE data[i]]
                    /\ pc' = [pc EXCEPT ![p] = "done"]
                    /\ dl' = [dl EXCEPT ![p].ret = Some(dl[p].outputPath)]
                    /\ err' = err
  /\ UNCHANGED <<dirs, input, file, netVars, io, out, FILE_CACHE_DIR, ans, refreshed, metaVars>>

(***************************************************************************)
(* The metadata factories: { type: "<kind>", ...opts }.                     *)
(***************************************************************************)
\* the object literal { type: kind, ...o }: a property of o replaces an earlier one
Spread(kind, o) ==
  [k \in {"type"} \cup DOMAIN o |-> IF k \in DOMAIN o THEN o[k] ELSE kind]

textMeta(o) == Spread("text", o)
imageMeta(o) == Spread("image", o)
videoMeta(o) == Spread("video", o)
audioMeta(o) == Spread("audio", o)
rawMeta(o) == Spread("raw", o)

\* the options records: each of type, tokens, width and extra supplied or not
Kinds == {"text", "image", "video", "audio", "raw"}
Supplied(S) == {Undef} \cup {Some(v) : v \in S}

\* the record with the supplied ones of the four fields
OptionRecord(t, n, w, e) ==
  [k \in (IF IsSet(t) THEN {"type"} ELSE {}) \cup (IF IsSet(n) THEN {"tokens"} ELSE {})
          \cup (IF IsSet(w) THEN {"width"} ELSE {}) \cup (IF IsSet(e) THEN {"extra"} ELSE {})
     |-> CASE k = "type" -> Val(t) [] k = "tokens" -> Val(n) [] k = "width" -> Val(w)
           [] OTHER -> Val(e)]

OptionRecords ==
  {OptionRecord(t, n, w, e) :
     t \in Supplied(Kinds), n \in Supplied(0..MaxNumber), w \in Supplied(0..MaxNumber),
     e \in Supplied({[model |-> "sdxl"]})}

TextMeta ==
  /\ meta' = [by |-> "text", item |-> textMeta(opts)]
  /\ UNCHANGED <<fsVars, pc, input, file, netVars, err, io, out, FILE_CACHE_DIR, dl, ans,
                 refreshed, opts>>

ImageMeta ==
  /\ meta' = [by |-> "image", item |-> imageMeta(opts)]
  /\ UNCHANGED <<fsVars, pc, input, file, netVars, err, io, out, FILE_CACHE_DIR, dl, ans,
                 refreshed, opts>>

VideoMeta ==
  /\ meta' = [by |-> "video", item |-> videoMeta(opts)]
  /\ UNCHANGED <<fsVars, pc, input, file, netVars, err, io, out, FILE_CACHE_DIR, dl, ans,
                 refreshed, opts>>

AudioMeta ==
  /\ meta' = [by |-> "audio", item |-> audioMeta(opts)]
  /\ UNCHANGED <<fsVars, pc, input, file, netVars, err, io, out, FILE_CACHE_DIR, dl, ans,
                 refreshed, opts>>

RawMeta ==
  /\ meta' = [by |-> "raw", item |-> rawMeta(opts)]
  /\ UNCHANGED <<fsVars, pc, input, file, netVars, err, io, out, FILE_CACHE_DIR, dl, ans,
                 refreshed, opts>>

(***************************************************************************)
(* Specifications.                                                         *)
(***************************************************************************)
\* call p is issued
Start(p) ==
  \/ \E inp \in Inputs : FromInvalid(p, inp)
  \/ \E inp \in Inputs : FromLocal(p, inp)
  \/ \E inp \in Inputs : FromRemote(p, inp)
  \/ \E lp \in LocalPaths : FromPath(p, lp)

\* a callback of the transfer of call p runs
Transfer(p) ==
  \/ Redirect(p)
  \/ HttpError(p)
  \/ RequestError(p)
  \/ Accept(p)
  \/ OpenStream(p)
  \/ WriteChunk(p)
  \/ StreamError(p)
  \/ Commit(p)
  \/ RenameFails(p)
  \/ CatchUnlink(p)
  \/ CatchSwallow(p)

\* a callback of call p runs, or File.from continues after its await
Callback(p) == Transfer(p) \/ FromResolved(p)

\* a callback of call p runs, or the caller serializes the File it returned
Run(p) == Callback(p) \/ ToJSON(p)

Step(p) == Start(p) \/ Run(p)

Next == \E p \in Procs : Step(p)

\* the calls overlap in every way the callers and the event loop allow
Spec == Init /\ [][Next]_vars

\* the callers await each call before issuing the next
AllSettled == \A q \in Procs : pc[q] \in {"idle", "done", "failed"}

NextSeq ==
  \E p \in Procs :
    \/ AllSettled /\ \E inp \in Inputs : FromInvalid(p, inp)
    \/ AllSettled /\ \E inp \in Inputs : FromLocal(p, inp)
    \/ AllSettled /\ \E inp \in Inputs : FromRemote(p, inp)
    \/ AllSettled /\ \E lp \in LocalPaths : FromPath(p, lp)
    \/ Run(p)

SpecSeq == Init /\ [][NextSeq]_vars

\* calls in sequence, among them copies of the Files earlier calls returned, while the
\* caller deletes the files those Files name
NextCopy ==
  \E p \in Procs :
    \/ AllSettled /\ FromLocal(p, Str(PathTxt))
    \/ AllSettled /\ FromRemote(p, Str(UrlA))
    \/ AllSettled /\ \E q \in Procs : FromFile(p, q)
    \/ AllSettled /\ CallerRemove(p)
    \/ Callback(p)

SpecCopy == Init /\ [][NextCopy]_vars

\* downloads of one locator into StorageDir.TEMP in sequence, with evictions of its
\* cache entry in between
NextTemp ==
  \E p \in Procs :
    \/ AllSettled /\ Download(p, UrlA, StorageDirTEMP)
    \/ AllSettled /\ CallerEvict(p)
    \/ Transfer(p)
    \/ DownloadFileReady(p)
    \/ DownloadCopy(p)

SpecTemp == Init /\ [][NextTemp]_vars

\* downloads of one locator into StorageDir.DATA and StorageDir.TEMP in sequence
NextData ==
  \E p \in Procs :
    \/ AllSettled /\ \E directory \in {StorageDirDATA, StorageDirTEMP} :
                       Download(p, UrlA, directory)
    \/ Transfer(p)
    \/ DownloadFileReady(p)
    \/ DownloadCopy(p)

SpecData == Init /\ [][NextData]_vars

\* resolutions and downloads in sequence of locators that differ in the fragment only,
\* and of a locator without a last path segment
NextKey ==
  \E p \in Procs :
    \/ AllSettled /\ Download(p, UrlAFrag, StorageDirTEMP)
    \/ AllSettled /\ \E url \in {UrlA, UrlC} : FromRemote(p, Str(url))
    \/ Callback(p)
    \/ DownloadFileReady(p)
    \/ DownloadCopy(p)

SpecKey == Init /\ [][NextKey]_vars

\* resolutions and fromPath calls in sequence while the application changes
\* FILE_CACHE_DIR in between
NextEnv ==
  \/ AllSettled /\ \E v \in EnvValues : SetEnv(v)
  \/ \E p \in Procs :
       \/ AllSettled /\ FromRemote(p, Str(UrlA))
       \/ AllSettled /\ \E inp \in {Str(PathBin), Desc(Undef, Some(PathBin), NoMeta)} :
                          FromLocal(p, inp)
       \/ AllSettled /\ \E localPath \in {PathBin, PathMissing, UrlA} : FromPath(p, localPath)
       \/ AllSettled /\ input[p].kind = "fromPath" /\ Exists(p)
       \/ Callback(p)

SpecEnv == Init /\ [][NextEnv]_vars

\* the metadata factories applied to every options record
InitMeta == InitFile /\ opts \in OptionRecords /\ meta = NoItem
NextMeta == TextMeta \/ ImageMeta \/ VideoMeta \/ AudioMeta \/ RawMeta

SpecMeta == InitMeta /\ [][NextMeta]_vars

\* local Files the caller asks and refreshes, deleting and rewriting their files in between
NextDisk ==
  \E p \in Procs :
    \/ \E inp \in {Str(PathTxt), Str(PathMissing)} : FromLocal(p, inp)
    \/ CallerRemove(p)
    \/ \E c \in NewContents : CallerWrite(p, c)
    \/ Exists(p)
    \/ RefreshMetadata(p)

SpecDisk == Init /\ [][NextDisk]_vars

(***************************************************************************)
(* The process exits while a resolution is in flight.                      *)
(***************************************************************************)
\* the steps of _downloadUrl before the rename of line 230 has run
BeforeRename == {"fetch", "open", "write", "finish", "catch"}

\* the process of call p dies before the rename (lines 218-236 stop where they are):
\* its descriptors are closed, the disk keeps what was written so far
Crash(p) ==
  /\ pc[p] \in BeforeRename
  /\ pc' = [pc EXCEPT ![p] = "crashed"]
  /\ fd' = [fd EXCEPT ![p] = 0]
  /\ data' = Live(names, fd', data)
  /\ UNCHANGED <<dirs, names, input, file, cachePath, cur, resp, pos, err, swallowed,
                 fetches, io, out>>
  /\ UNCHANGED opVars

\* no call is in flight: each one returned, threw, or died with its process
AllQuiet == \A q \in Procs : pc[q] \in {"idle", "done", "failed", "crashed"}

\* resolutions of one locator in sequence, each of which may die before its rename
NextCrash ==
  \E p \in Procs :
    \/ AllQuiet /\ FromRemote(p, Str(UrlA))
    \/ Callback(p)
    \/ Crash(p)

SpecCrash == Init /\ [][NextCrash]_vars

\* File.from on descriptors of local files with every kind of supplied metadata
NextOptions ==
  \E p \in Procs :
    \/ AllSettled /\ \E inp \in MetaInputs : FromLocal(p, inp)
    \/ ToJSON(p)

SpecOptions == Init /\ [][NextOptions]_vars

\* resolutions in sequence of a locator and of a moved locator
NextRedirect ==
  \E p \in Procs :
    \/ AllSettled /\ \E u \in {UrlA, UrlR} : FromRemote(p, Str(u))
    \/ Callback(p)

SpecRedirect == Init /\ [][NextRedirect]_vars

\* the event loop runs every pending callback and the server answers every request
SpecFair == Init /\ [][NextSeq]_vars /\ \A p \in Procs : WF_vars(Run(p))


(***************************************************************************)
(* Vocabulary of the properties.                                           *)
(***************************************************************************)
\* call p is a File.from call on a string or descriptor
FromCall(p) == pc[p] # "idle" /\ input[p].kind \in {"string", "data"}

\* call p is a File.from call whose uri is a remote locator
RemoteCall(p) == FromCall(p) /\ IsRemote(Options(input[p]))

Locator(p) == Val(Options(input[p]).uri)

\* the target cache path and the temporary sibling path of a locator
\* (under the default cache root)
TargetPaths == [u \in Urls |-> resolve(cachePathIn(DefaultCacheDir, u))]
TempPaths ==
  [u \in Urls |-> resolve(cachePathIn(DefaultCacheDir, u) \o <<".", "t", "m", "p">>)]
TargetOf(u) == TargetPaths[u]
TempOf(u) == TempPaths[u]

\* the complete bytes of some response a fetch may have finished with
Complete(d) == \E v \in Urls : d = Body(v) \/ d = Page(v)

\* p is the call issued last
Latest(p) == pc[p] # "idle" /\ \A q \in Procs : q > p => pc[q] = "idle"

\* p threw the error of _downloadUrl's catch
TransferFailure(p) == pc[p] = "failed" /\ err[p].msg = "Failed to download"

\* the fetch of p ran to the end of the body (the stream finished)
FetchCompleted(p) ==
  \/ pc[p] \in {"finish", "resolved", "done"}
  \/ pc[p] \in {"catch", "failed"} /\ err[p].cause.name = "ENOENT rename"

SameLocator(p, q) == RemoteCall(p) /\ RemoteCall(q) /\ Locator(p) = Locator(q)

Success(r) == r.statusCode >= 200 /\ r.statusCode < 300

\* every response that was written to disk so far had a success status
OnlySuccessResponses == \A p \in Procs : resp[p] # NoResp => Success(resp[p])

(***************************************************************************)
(* C1.  Whenever the target cache path exists it holds the complete bytes  *)
(* of a finished fetch, and nobody is still writing it, in every           *)
(* interleaving of concurrent resolutions.  (Refuted: the resolutions      *)
(* share one temporary path.)  Only success responses are considered.      *)
(***************************************************************************)
C1_TargetAlwaysComplete ==
  \A u \in Urls :
    (OnlySuccessResponses /\ TargetOf(u) \in DOMAIN names) =>
      /\ Complete(data[names[TargetOf(u)]])
      /\ \A p \in Procs : fd[p] # names[TargetOf(u)]

(***************************************************************************)
(* C2.  Of two resolutions of the same locator in sequence, the first      *)
(* succeeding, the second is a cache hit: it performs no fetch, leaves no  *)
(* temporary file, and returns the path the first returned; the pair       *)
(* fetches exactly once (the first fetched unless it was a hit itself).    *)
(***************************************************************************)
SeqPair(p, q) == p < q /\ SameLocator(p, q) /\ pc[p] = "done"

C2_SecondIsCacheHit ==
  \A p, q \in Procs :
    SeqPair(p, q) =>
      /\ fetches[q] = 0
      /\ pc[q] \in {"resolved", "done"}
      /\ TempOf(Locator(q)) \notin DOMAIN names
      /\ pc[q] = "done" => file[q].path = file[p].path
      /\ fetches[p] + fetches[q] <= 1
      /\ (\A r \in Procs : r < p => ~(SameLocator(r, p) /\ pc[r] = "done"))
           => fetches[p] + fetches[q] = 1

C2_Witness ==
  \E p, q \in Procs : SeqPair(p, q) /\ pc[q] = "done" /\ fetches[p] = 1

(***************************************************************************)
(* C3.  When two concurrent resolutions of the same locator both miss the  *)
(* cache and both fetches run to completion, neither fails and both return *)
(* the same path.  (Refuted: the second rename finds the shared temporary  *)
(* path gone.)                                                             *)
(***************************************************************************)
C3_BothSucceed ==
  \A p, q \in Procs :
    (/\ OnlySuccessResponses
     /\ p # q /\ SameLocator(p, q)
     /\ fetches[p] = 1 /\ fetches[q] = 1
     /\ FetchCompleted(p) /\ FetchCompleted(q))
    => /\ pc[p] \notin {"catch", "failed"}
       /\ (pc[p] = "done" /\ pc[q] = "done") => file[p].path = file[q].path

(***************************************************************************)
(* C4.  Once the target path is present with complete content, no step     *)
(* removes it or changes its content.  (Refuted.)                          *)
(***************************************************************************)
C4_AppendOnly ==
  [][\A u \in Urls :
       (/\ OnlySuccessResponses
        /\ TargetOf(u) \in DOMAIN names
        /\ Complete(data[names[TargetOf(u)]]))
         => /\ TargetOf(u) \in DOMAIN names'
            /\ data'[names'[TargetOf(u)]] = data[names[TargetOf(u)]]]_vars

(***************************************************************************)
(* C5.  When the fetch or the rename of a resolution that runs alone       *)
(* fails, the error names the locator and the cause of the failure (never  *)
(* the error of the cleanup), and afterwards the target path does not      *)
(* exist.  As claimed: nor does the temporary path.  As amended: the       *)
(* temporary path does not exist either, unless deleting it was refused.   *)
(***************************************************************************)
C5_ErrorAndTarget(p) ==
  /\ err[p].url = Locator(p)
  /\ err[p].cause.name \in
       {"HTTP", "ECONNREFUSED", "EIO write", "EACCES rename", "ENOENT rename"}
  /\ TargetOf(Locator(p)) \notin DOMAIN names

C5_NothingLeftBehind ==
  \A p \in Procs :
    (Latest(p) /\ TransferFailure(p)) =>
      /\ C5_ErrorAndTarget(p)
      /\ TempOf(Locator(p)) \notin DOMAIN names

C5_NothingLeftUnlessUnlinkRefused ==
  \A p \in Procs :
    (Latest(p) /\ TransferFailure(p)) =>
      /\ C5_ErrorAndTarget(p)
      /\ TempOf(Locator(p)) \in DOMAIN names => swallowed[p] = "EPERM unlink"

C5_Witness ==
  \E p \in Procs :
    /\ Latest(p) /\ TransferFailure(p)
    /\ err[p].cause.name = "EACCES rename"
    /\ TempOf(Locator(p)) \notin DOMAIN names

(***************************************************************************)
(* C6.  A response whose status is not a success status never ends in a    *)
(* committed cache entry and a returned File.  (Refuted: a 3xx answer      *)
(* without Location is written and committed.)                             *)
(***************************************************************************)
C6_NonSuccessNeverCommitted ==
  \A p \in Procs :
    (resp[p] # NoResp /\ ~Success(resp[p])) => pc[p] \notin {"resolved", "done"}

(***************************************************************************)
(* C7.  Every remote resolution eventually ends, in success or in a        *)
(* failure.  (Refuted: a cycle of redirects is followed forever.)          *)
(***************************************************************************)
C7_Terminates ==
  \A p \in Procs : (pc[p] = "fetch") ~> (pc[p] \in {"done", "failed"})

(***************************************************************************)
(* C8.  A File returned by File.from on a string or descriptor has its     *)
(* path set.  As claimed: a file exists at the path and the metadata       *)
(* (content type when the extension is known, size, filename) is           *)
(* populated.  As amended: that holds for a remote locator and for a local *)
(* path that names a file; for a local path that names no file the call    *)
(* still returns, exists() is false and the metadata is as supplied.       *)
(***************************************************************************)
Returned(p) == FromCall(p) /\ pc[p] = "done" /\ Latest(p)

Populated(f) ==
  /\ IsSet(f.size)
  /\ truthy(f.filename)
  /\ guessContentType(Val(f.path)) # Undef => truthy(f.contentType)

C8_ReturnedFileExists ==
  \A p \in Procs :
    Returned(p) =>
      /\ truthy(file[p].path)
      /\ existsSync(Val(file[p].path))
      /\ Populated(file[p])

C8_ReturnedFilePopulatedIfExists ==
  \A p \in Procs :
    Returned(p) =>
      /\ truthy(file[p].path)
      /\ RemoteCall(p) => existsSync(Val(file[p].path))
      /\ existsSync(Val(file[p].path)) => Populated(file[p])
      /\ ~existsSync(Val(file[p].path)) =>
           /\ file[p].contentType = Options(input[p]).contentType
           /\ file[p].size = Options(input[p]).size
           /\ file[p].filename = Options(input[p]).filename

C8_Witness ==
  \E p \in Procs :
    /\ Returned(p) /\ RemoteCall(p) /\ fetches[p] = 1
    /\ file[p].size = Some(BodyLen)

(***************************************************************************)
(* C9.  An input with neither a uri nor a path (both absent or empty)      *)
(* makes File.from fail with "Either 'uri' or 'path' must be provided",    *)
(* and the call has touched neither the file system nor the network.       *)
(***************************************************************************)
Absent(o) == o = Undef \/ o = Some(<<>>)

LacksUriAndPath(inp) ==
  \/ inp.kind = "string" /\ inp.s = <<>>
  \/ inp.kind = "data" /\ Absent(inp.uri) /\ Absent(inp.path)

C9_InvalidInputFirst ==
  \A p \in Procs :
    (pc[p] # "idle" /\ LacksUriAndPath(input[p])) =>
      /\ pc[p] = "failed"
      /\ err[p].msg = "Either 'uri' or 'path' must be provided"
      /\ ~io[p]
      /\ fetches[p] = 0
      /\ cachePath[p] = <<>>

C9_Witness ==
  \E p \in Procs :
    /\ pc[p] = "failed" /\ input[p].kind = "data"
    /\ input[p].uri = Some(<<>>) /\ input[p].path = Some(<<>>)

(***************************************************************************)
(* C10.  toJSON returns exactly the fields that are set, under the keys    *)
(* uri, path, content_type, size, filename, and changes no field.  As      *)
(* claimed: a File made from only the path of an existing file serializes  *)
(* to exactly path, content_type, size, filename.  As amended:             *)
(* content_type is among them only when the extension of the path is in    *)
(* the MIME table.                                                         *)
(***************************************************************************)
SetKeys(f) ==
  {k \in {"uri", "path", "content_type", "size", "filename"} :
     \/ k = "uri" /\ IsSet(f.uri)
     \/ k = "path" /\ IsSet(f.path)
     \/ k = "content_type" /\ IsSet(f.contentType)
     \/ k = "size" /\ IsSet(f.size)
     \/ k = "filename" /\ IsSet(f.filename)}

Field(f, k) ==
  CASE k = "uri" -> f.uri
    [] k = "path" -> f.path
    [] k = "content_type" -> f.contentType
    [] k = "size" -> f.size
    [] k = "filename" -> f.filename

\* p made its File from nothing but a path, and that path names a file
OnlyExistingPath(p) ==
  /\ \/ input[p].kind = "fromPath"
     \/ /\ input[p].kind = "data"
        /\ input[p].uri = Undef
        /\ \A k \in {"content_type", "contentType", "size", "filename"} :
             input[p][k] = Undef
  /\ truthy(file[p].path)
  /\ resolve(Val(file[p].path)) \in DOMAIN names

Serialized(p) == out' # out /\ out'.of = p

C10_KeysAreSetFields(p) ==
  /\ file'[p] = file[p]
  /\ DOMAIN out'.json = SetKeys(file[p])
  /\ \A k \in DOMAIN out'.json : Some(out'.json[k]) = Field(file[p], k)

Copies(p) == pc[p] = "idle" /\ pc'[p] # "idle" /\ input'[p].kind = "file"

C11_CopyIsFieldwise ==
  [][\A p \in Procs :
       Copies(p) =>
         /\ pc'[p] = "done"
         /\ \E q \in Procs : HoldsFile(q) /\ file'[p] = file[q]
         /\ fetches' = fetches
         /\ io' = io
         /\ UNCHANGED fsVars]_vars

\* a copy of a File with a remote uri while the cache entry is absent
C11_Witness ==
  \E p \in Procs :
    /\ pc[p] = "done" /\ input[p].kind = "file" /\ Latest(p)
    /\ truthy(file[p].uri) /\ isUrl(Val(file[p].uri))
    /\ ~existsSync(Val(file[p].path))
    /\ IsSet(file[p].size)

(***************************************************************************)
(* C15.  After refreshMetadata() the size of a File whose file exists      *)
(* equals the current byte size of that file, also when the content        *)
(* changed after the File was created.  (Refuted: a size that is already   *)
(* set is never read again.)                                               *)
(***************************************************************************)
C15_RefreshedSizeIsCurrent ==
  \A p \in Procs :
    (refreshed = p /\ resolve(Val(file[p].path)) \in DOMAIN names) =>
      file[p].size = Some(statSize(Val(file[p].path)))

(***************************************************************************)
(* C16.  exists() answers for the moment of the call: it is true exactly   *)
(* when the path is set and an entry is present at the path then, whatever *)
(* the File saw at its construction or at an earlier exists().             *)
(***************************************************************************)
C16_ExistsIsCurrent ==
  \A p \in Procs :
    ans.of = p =>
      ans.exists = (/\ IsSet(file[p].path)
                    /\ \/ resolve(Val(file[p].path)) \in DOMAIN names
                       \/ resolve(Val(file[p].path)) \in dirs)

\* the file was there at the construction, and the answer after its deletion is false
C16_Witness ==
  \E p \in Procs :
    /\ ans.of = p /\ ~ans.exists
    /\ input[p] = Str(PathTxt) /\ IsSet(file[p].size)

(***************************************************************************)
(* C12.  download(url, StorageDir.TEMP) never returns a file that already  *)
(* exists at the target path as it is: it always goes through File.from.   *)
(* As claimed: and always performs a network fetch.  (Refuted: File.from   *)
(* answers from the File cache when that holds the locator.)  As amended:  *)
(* it fetches exactly when the File cache does not hold the locator, and   *)
(* the target is then overwritten with the resolved file.                  *)
(***************************************************************************)
\* call p is a download into StorageDir.TEMP
TempDownload(p) ==
  pc[p] # "idle" /\ input[p].kind = "download" /\ dl[p].directory = StorageDirTEMP

C12_TempAlwaysFetches ==
  \A p \in Procs : (TempDownload(p) /\ pc[p] = "done") => fetches[p] >= 1

\* the step in which call p starts as a download into StorageDir.TEMP
StartsTemp(p) ==
  pc[p] = "idle" /\ pc'[p] # "idle" /\ input'[p].kind = "download"
    /\ dl'[p].directory = StorageDirTEMP

C12_TempSkipsOnlyFileCache ==
  /\ [][\A p \in Procs :
          StartsTemp(p) =>
            /\ pc'[p] \in {"fetch", "resolved"}
            /\ pc'[p] = "fetch" <=> ~existsSync(getCachePath(input'[p].s))
            /\ fetches'[p] = IF pc'[p] = "fetch" THEN 1 ELSE 0]_vars
  /\ [](\A p \in Procs :
          (TempDownload(p) /\ pc[p] = "done") =>
            /\ dl[p].ret = Some(dl[p].outputPath)
            /\ file[p].path = Some(resolve(cachePath[p])))

\* a download into TEMP that fetched although an earlier one had left the target there
C12_Witness ==
  \E p, q \in Procs :
    /\ q < p /\ TempDownload(q) /\ TempDownload(p)
    /\ pc[q] = "done" /\ pc[p] = "done" /\ fetches[p] = 1
    /\ dl[p].outputPath = dl[q].outputPath

(***************************************************************************)
(* C13.  download(url, directory) with a directory other than              *)
(* StorageDir.TEMP whose target <directory>/<key>/<filename> exists        *)
(* returns that path in the same step, with no fetch, without going        *)
(* through the File cache, and with nothing on disk changed.               *)
(***************************************************************************)
\* the step in which call p starts as a download of url into directory
StartsDownload(p, url, directory) ==
  pc[p] = "idle" /\ pc'[p] # "idle" /\ input'[p].kind = "download"
    /\ input'[p].s = url /\ dl'[p].directory = directory

C13_ExistingTargetReturned ==
  [][\A p \in Procs : \A url \in {UrlA} : \A directory \in {StorageDirDATA} :
       (/\ StartsDownload(p, url, directory)
        /\ resolve(join(join(directory, CacheKey(Components(url))),
                         CacheFileName(url))) \in DOMAIN names)
       => /\ pc'[p] = "done"
          /\ dl'[p].ret = Some(join(join(directory, CacheKey(Components(url))),
                                     CacheFileName(url)))
          /\ fetches' = fetches
          /\ cachePath' = cachePath
          /\ UNCHANGED fsVars]_vars

\* a second download into StorageDir.DATA that returned the file the first one left
C13_Witness ==
  \E p, q \in Procs :
    /\ q < p /\ pc[q] = "done" /\ pc[p] = "done"
    /\ input[q].kind = "download" /\ input[p].kind = "download"
    /\ dl[q].directory = StorageDirDATA /\ dl[p].directory = StorageDirDATA
    /\ fetches[q] = 1 /\ fetches[p] = 0 /\ cachePath[p] = <<>>
    /\ dl[p].ret = dl[q].ret

(***************************************************************************)
(* C14.  The cache location of a locator depends on its host, path and     *)
(* query only: File.from places the file at                                *)
(* <root>/<key of host+path+query>/<last path segment, or "download">,     *)
(* download at the same place under its directory; locators that differ    *)
(* in the fragment only share the entry, so that after one was resolved    *)
(* the other is a cache hit without a fetch.                               *)
(***************************************************************************)
\* the key and the file name of the locators, written out
C14_Key ==
  [u \in {UrlA, UrlAFrag, UrlC} |-> IF u = UrlC THEN <<"#h/">> ELSE <<"#h/a.png">>]
C14_Name ==
  [u \in {UrlA, UrlAFrag, UrlC} |->
     IF u = UrlC THEN <<"d", "o", "w", "n", "l", "o", "a", "d">>
     ELSE <<"a", ".", "p", "n", "g">>]
C14_Place(root, u) == root \o <<"/">> \o C14_Key[u] \o <<"/">> \o C14_Name[u]

\* call p went through the File cache for its locator
ThroughCache(p) == pc[p] # "idle" /\ cachePath[p] # <<>>

C14_PlaceByHostPathQuery ==
  \A p \in Procs :
    (ThroughCache(p) /\ pc[p] = "done") =>
      /\ file[p].path = Some(C14_Place(<<"/", "u", "/", ".", "c", "a", "c", "h", "e", "/",
                                        "i", "n", "f", "e", "r", "e", "n", "c", "e", "s",
                                        "h", "/", "f", "i", "l", "e", "s">>, input[p].s))
      /\ Val(file[p].path) \in DOMAIN names
      /\ input[p].kind = "download" =>
            /\ dl[p].ret = Some(C14_Place(dl[p].directory, input[p].s))
            /\ Val(dl[p].ret) \in DOMAIN names
            /\ data[names[Val(dl[p].ret)]] = data[names[Val(file[p].path)]]
      /\ \A q \in Procs :
            (/\ p < q /\ ThroughCache(q)
             /\ UrlHost(input[q].s) = UrlHost(input[p].s)
             /\ UrlPathname(input[q].s) = UrlPathname(input[p].s)
             /\ UrlSearch(input[q].s) = UrlSearch(input[p].s))
            => /\ fetches[q] = 0
               /\ pc[q] \in {"resolved", "copy", "done"}
               /\ pc[q] = "done" => file[q].path = file[p].path

\* a locator resolved by a fetch, then its fragment variant resolved without one
C14_Witness ==
  \E p, q \in Procs :
    /\ p < q /\ pc[p] = "done" /\ pc[q] = "done"
    /\ ThroughCache(p) /\ ThroughCache(q)
    /\ input[p].s # input[q].s /\ {input[p].s, input[q].s} = {UrlA, UrlAFrag}
    /\ fetches[p] = 1 /\ fetches[q] = 0

(***************************************************************************)
(* C19.  Each metadata factory returns a record whose type is the          *)
(* factory's own kind, for every options record, and every other supplied  *)
(* field, extra included, is carried over unchanged.  (Refuted: a type     *)
(* field in the options record replaces the factory's kind.)               *)
(***************************************************************************)
C19_TypeIsFactoryKind ==
  meta # NoItem =>
    /\ meta.item.type = meta.by
    /\ DOMAIN meta.item = DOMAIN opts \cup {"type"}
    /\ \A k \in DOMAIN opts \ {"type"} : meta.item[k] = opts[k]

(***************************************************************************)
(* C17.  The cache root is read once: after a resolution has cached a      *)
(* locator, a change of FILE_CACHE_DIR does not change the root and a      *)
(* later resolution of the locator is still a cache hit.  (Refuted: the    *)
(* variable is read at every resolution.)                                  *)
(***************************************************************************)
C17_RootReadOnce ==
  \A p, q \in Procs :
    (p < q /\ SameLocator(p, q) /\ pc[p] = "done") =>
      /\ fetches[q] = 0
      /\ cachePath[q] = cachePath[p]

(***************************************************************************)
(* C18.  Every File returned by fromPath or by File.from on a string or    *)
(* descriptor has an absolute path, also for a relative input and a        *)
(* relative cache root; fromPath performs no fetch and no cache write,     *)
(* also for a string that starts with http://; and for an existing file    *)
(* exists() is true right after the construction.                          *)
(***************************************************************************)
\* the step in which call p runs as fromPath
RunsFromPath(p) == pc[p] = "idle" /\ pc'[p] # "idle" /\ input'[p].kind = "fromPath"

C18_AbsoluteAndLocal ==
  /\ [](\A p \in Procs :
          (pc[p] = "done" /\ input[p].kind \in {"string", "data", "fromPath"}) =>
            /\ IsSet(file[p].path)
            /\ Head(Val(file[p].path)) = "/"
            /\ input[p].kind = "fromPath" => fetches[p] = 0 /\ cachePath[p] = <<>>)
  /\ [](\A p \in Procs :
          (/\ ans.of = p /\ input[p].kind = "fromPath"
           /\ Cwd \o <<"/">> \o input[p].s \in DOMAIN names)
          => ans.exists)
  /\ [][\A p \in Procs :
          RunsFromPath(p) =>
            /\ pc'[p] = "done"
            /\ fetches' = fetches
            /\ UNCHANGED fsVars]_vars

\* a File fetched into a relative cache root, and a fromPath on a relative path of an
\* existing file that was asked whether it exists
C18_Witness ==
  /\ \E p \in Procs :
       /\ pc[p] = "done" /\ RemoteCall(p) /\ fetches[p] = 1
       /\ Head(cachePath[p]) # "/"
  /\ \E p \in Procs :
       /\ ans.of = p /\ ans.exists
       /\ input[p].kind = "fromPath" /\ input[p].s = PathBin

(***************************************************************************)
(* C20.  A resolution whose own fetch ran to the end succeeds, also when   *)
(* a concurrent resolution of the same locator fails and cleans up its     *)
(* temporary file at any point.  (Refuted: the cleanup deletes the one     *)
(* temporary path both resolutions use.)  Only success responses are       *)
(* considered, and no other resolution has committed.                      *)
(***************************************************************************)
C20_UnaffectedByOthersCleanup ==
  \A p \in Procs :
    (/\ OnlySuccessResponses
     /\ RemoteCall(p) /\ fetches[p] = 1 /\ FetchCompleted(p)
     /\ \A q \in Procs \ {p} : pc[q] \notin {"resolved", "done"})
    => pc[p] \notin {"catch", "failed"}

(***************************************************************************)
(* C21.  A resolution that dies with its process before the rename leaves  *)
(* no target path behind (at most the temporary path); the next resolution *)
(* of the locator does not take the leftover temporary file for a cache    *)
(* hit: it fetches, and when it has committed, the target path holds the   *)
(* complete bytes of a response and is the path of the File.               *)
(***************************************************************************)
\* call p died with its process
Crashed(p) == pc[p] = "crashed"

\* call p has renamed the file it fetched onto the target path
Committed(p) == RemoteCall(p) /\ fetches[p] = 1 /\ pc[p] \in {"resolved", "done"}

\* every call before p died before its rename or failed
NoneCommittedBefore(p) == \A q \in Procs : q < p => pc[q] \in {"crashed", "failed"}

C21_CrashLeavesNoTarget ==
  /\ \A u \in Urls :
       TargetOf(u) \in DOMAIN names => \E q \in Procs : Committed(q) /\ Locator(q) = u
  /\ \A p \in Procs :
       /\ (RemoteCall(p) /\ NoneCommittedBefore(p)) => fetches[p] = 1
       /\ (Committed(p) /\ Latest(p)) =>
            /\ TargetOf(Locator(p)) \in DOMAIN names
            /\ Complete(data[names[TargetOf(Locator(p))]])
            /\ pc[p] = "done" => file[p].path = Some(TargetOf(Locator(p)))

\* a call died leaving its temporary file, and the next call committed the target
C21_Witness ==
  \E p, q \in Procs :
    /\ q = p + 1
    /\ Crashed(p) /\ pos[p] > 0
    /\ pc[q] = "done" /\ Committed(q)
    /\ TargetOf(UrlA) \in DOMAIN names
    /\ TempOf(UrlA) \notin DOMAIN names

(***************************************************************************)
(* C22.  The second error of File.from ("Either 'uri' or 'path' must be    *)
(* provided and be valid") is never thrown: a call whose input passed the  *)
(* first check either fails in its fetch (or on the locator itself) or     *)
(* reaches the path check with a non-empty path.                           *)
(***************************************************************************)
C22_SecondErrorUnreachable ==
  \A p \in Procs :
    FromCall(p) =>
      /\ err[p] # ResolutionFailed
      /\ pc[p] = "failed" =>
           \/ err[p] = InvalidInput
           \/ err[p].msg \in {"Invalid URL", "Failed to download"}
      /\ pc[p] = "done" => truthy(file[p].path)

\* a descriptor with a local uri and no path passed the first check and was resolved
C22_Witness ==
  \E p \in Procs :
    /\ input[p] = Desc(Some(PathBin), Undef, NoMeta)
    /\ pc[p] = "done"
    /\ file[p].path = Some(resolve(PathBin))

(***************************************************************************)
(* C23.  In every File that File.from or fromPath returned, uri, when set, *)
(* is a remote locator (it starts with http:// or https://); a string      *)
(* argument without such a prefix gives a File whose uri is unset, and a   *)
(* serialized record has a uri key only for a remote locator.              *)
(***************************************************************************)
\* call p returned a File made by File.from or fromPath
Produced(p) == pc[p] = "done" /\ input[p].kind \in {"string", "data", "fromPath"}

C23_UriIsRemote ==
  \A p \in Procs :
    Produced(p) =>
      /\ IsSet(file[p].uri) => isUrl(Val(file[p].uri))
      /\ (input[p].kind = "string" /\ ~isUrl(input[p].s)) => ~IsSet(file[p].uri)
      /\ (out.of = p /\ "uri" \in DOMAIN out.json) => isUrl(out.json["uri"])

(***************************************************************************)
(* C24.  File.from keeps the metadata of the descriptor.  As claimed: a    *)
(* content type, size or filename supplied in the descriptor is unchanged  *)
(* in the File, and when no file exists at the path no metadata field      *)
(* differs from the descriptor's.  As amended: a non-empty content type or *)
(* filename and any size (zero included) is unchanged; an empty content    *)
(* type or filename counts as missing and is filled from the path.         *)
(***************************************************************************)
\* the metadata fields of File p equal those of its options
MetadataAsSupplied(p) ==
  LET o == Options(input[p])
  IN  /\ file[p].contentType = o.contentType
      /\ file[p].size = o.size
      /\ file[p].filename = o.filename

C24_SuppliedMetadataKept ==
  \A p \in Procs :
    (FromCall(p) /\ pc[p] = "done") =>
      LET o == Options(input[p])
      IN  /\ IsSet(o.contentType) => file[p].contentType = o.contentType
          /\ IsSet(o.size) => file[p].size = o.size
          /\ IsSet(o.filename) => file[p].filename = o.filename
          /\ ~existsSync(Val(file[p].path)) => MetadataAsSupplied(p)

C24_NonEmptyMetadataKept ==
  \A p \in Procs :
    (FromCall(p) /\ pc[p] = "done") =>
      LET o == Options(input[p])
      IN  /\ truthy(o.contentType) => file[p].contentType = o.contentType
          /\ IsSet(o.size) => file[p].size = o.size
          /\ truthy(o.filename) => file[p].filename = o.filename
          /\ ~existsSync(Val(file[p].path)) => MetadataAsSupplied(p)

\* one File kept all three supplied fields although its file exists, another one
\* kept its metadata because no file exists at its path
C24_Witness ==
  \E p, q \in Procs :
    /\ input[p] = Desc(Undef, Some(PathTxt), FullMeta) /\ pc[p] = "done"
    /\ file[p].contentType = Some(<<"c/d">>) /\ file[p].size = Some(5)
    /\ file[p].filename = Some(<<"n">>)
    /\ input[q] = Desc(Undef, Some(PathMissing), EmptyMeta) /\ pc[q] = "done"
    /\ MetadataAsSupplied(q)

(***************************************************************************)
(* C26.  The content type of a descriptor is taken from either spelling    *)
(* and ends up in the one contentType field of the File (serialized under  *)
(* content_type): a non-empty content_type is the File's content type,     *)
(* also when a different contentType is given beside it, and a non-empty   *)
(* contentType is the File's content type when content_type is absent.     *)
(***************************************************************************)
C26_SnakeCaseWins ==
  \A p \in Procs :
    (FromCall(p) /\ pc[p] = "done" /\ input[p].kind = "data") =>
      /\ truthy(input[p].content_type) => file[p].contentType = input[p].content_type
      /\ (~IsSet(input[p].content_type) /\ truthy(input[p].contentType)) =>
           file[p].contentType = input[p].contentType
      /\ (out.of = p /\ (truthy(input[p].content_type) \/ truthy(input[p].contentType))) =>
           /\ "content_type" \in DOMAIN out.json
           /\ Some(out.json["content_type"]) = file[p].contentType

\* a descriptor with both spellings and different values was resolved and serialized
C26_Witness ==
  \E p \in Procs :
    /\ input[p] = Desc(Undef, Some(PathTxt), BothMeta)
    /\ input[p].content_type # input[p].contentType
    /\ pc[p] = "done"
    /\ file[p].contentType = Some(<<"a/b">>)
    /\ out.of = p

(***************************************************************************)
(* C25.  A resolution whose request is answered by redirects that lead to  *)
(* a success response succeeds: it fails only on an error status, a        *)
(* connection failure or a disk failure, never on a redirect response;     *)
(* once committed, the target path of the locator the caller asked for     *)
(* holds the body of the final (success) response, never the page of a     *)
(* redirect response, and it is the path of the returned File.             *)
(***************************************************************************)
\* the failures that are not caused by following a redirect
OtherFailures == {"HTTP", "ECONNREFUSED", "EIO write", "EACCES rename", "ENOENT rename"}

C25_RedirectsAreFollowed ==
  \A p \in Procs :
    RemoteCall(p) =>
      /\ pc[p] \in {"catch", "failed"} => err[p].cause.name \in OtherFailures
      /\ (Committed(p) /\ Latest(p) /\ Success(resp[p])) =>
           LET target == resolve(getCachePath(Locator(p)))
           IN  /\ target \in DOMAIN names
               /\ \E v \in Urls : data[names[target]] = Body(v)
               /\ pc[p] = "done" => file[p].path = Some(target)

====
